---- MODULE Spec2Model ----
(***************************************************************************)
(* A state-machine model of rat_king_parser's RATConfigParser              *)
(* (src/src/rat_king_parser/config_parser/rat_config_parser.py).           *)
(*                                                                         *)
(* One parse of one binary is one behaviour: Init draws the binary and the *)
(* constructor arguments, the actions follow __init__, _get_config, the    *)
(* two location strategies and _decrypt_and_decode_config statement by     *)
(* statement.  The payload, the item schemas and the decryptors are        *)
(* external collaborators: the binary record fixes what each of their      *)
(* calls returns or raises.                                                *)
(***************************************************************************)
EXTENDS Integers, Sequences, FiniteSets, TLC

\* ---------------------------------------------------------------- bounds
\* number of decryptor kinds in the registry SUPPORTED_DECRYPTORS
NumDecryptors == 2
\* candidate regions of one binary: the marker-adjacent body plus the .cctors
MaxRegions == 2
\* encrypted-string fields of one candidate region
MaxEnc == 1
\* byte-array fields of one candidate region
MaxBytes == 1

\* ------------------------------------------------------ program constants
MIN_CONFIG_LEN_FLOOR == 5
MIN_CONFIG_LEN_CEILING == 9
\* Python's None in the slot self._decryptor (kinds are 1..NumDecryptors)
None == 0

\* ------------------------------------------------- ordered mappings (dict)
\* A Python dict is a sequence of <<key, value>> pairs with distinct keys,
\* in insertion order.
Keys(m) == {m[i][1] : i \in DOMAIN m}

HasKey(m, k) == \E i \in DOMAIN m : m[i][1] = k

Get(m, k) == m[CHOOSE i \in DOMAIN m : m[i][1] = k][2]

\* m[k] = v : an existing key keeps its position
Put(m, k, v) ==
    IF HasKey(m, k)
    THEN [i \in DOMAIN m |-> IF m[i][1] = k THEN <<k, v>> ELSE m[i]]
    ELSE Append(m, <<k, v>>)

RECURSIVE Update(_, _)
\* m.update(n); the mapping after each assignment and the rest of n are bound
\* by a quantifier so that each is computed once
Update(m, n) ==
    IF n = <<>> THEN m
    ELSE CHOOSE r \in {Update(p, t) : p \in {Put(m, n[1][1], n[1][2])},
                                      t \in {Tail(n)}} : TRUE

\* the keys of m in iteration order
KeySeq(m) == [i \in DOMAIN m |-> m[i][1]]

InList(x, l) == \E i \in DOMAIN l : l[i] = x

\* ------------------------------------------------------ names and values
\* A field name is a record: cls says what kind of string it is (the
\* properties the code tests: isascii(), membership of
\* KNOWN_CONFIG_FIELD_NAMES, equality with "UrlHost"), id tells names of
\* one class apart.
Name(cls, id) == [cls |-> cls, id |-> id]

UrlHost == Name("UrlHost", 0)

\* the field a decryptor adds to its output on its own
DynamicField == Name("dynamic", 0)

\* f"obfuscated_key_{idx}"
ObfuscatedKey(idx) == Name("obfuscated_key", idx)

\* str.isascii()
isascii(key) == key.cls # "nonascii"

\* key in KNOWN_CONFIG_FIELD_NAMES
IsKnownFieldName(key) == key.cls \in {"known", "canonical"}

\* A value is a record: t is its form, f the field it was read for, k the
\* decryptor kind that produced it (None when no decryptor did).
Value(t, f, k) == [t |-> t, f |-> f, k |-> k]

\* -------------------------------------------------------------- registry
Kinds == 1..NumDecryptors

SUPPORTED_DECRYPTORS == [i \in 1..NumDecryptors |-> i]

SUPPORTED_CONFIG_ITEMS == <<"plain", "bytearray", "encrypted">>

\* decryptor.key / decryptor.salt of an instance of kind k, None when the
\* kind has none: kind 1 derives key and salt, kind 2 a key only, any
\* further kind neither.
DecryptorKey(k) == IF k <= 2 THEN Value("keybytes", 0, k) ELSE Value("None", 0, 0)

DecryptorSalt(k) == IF k <= 1 THEN Value("saltbytes", 0, k) ELSE Value("None", 0, 0)

\* bytes.hex()
Hex(v) == Value("hex", v.f, v.k)

\* what the report holds for an absent key or salt: the string "None"
NoneString == Value("NoneString", 0, 0)

\* ---------------------------------------------------------------- inputs
\* A candidate region (a method body) is described by what the item schemas
\* parse from it: plain fields, byte-array fields, encrypted-string fields,
\* which schema (if any) has a field named UrlHost, and which decryptor
\* kinds can decrypt its encrypted-string batch.
PlainCounts == {0, 4, 5, 9}

UrlPlaces == {"none", "plain", "encrypted"}

\* A region with encrypted strings has no or 5 plain fields; UrlHost is an
\* encrypted string, or the last of 4 plain fields; byte arrays come with 5
\* plain fields.  Only the kinds that can be constructed can decrypt.
Regions(compat) ==
    { r \in [plain : PlainCounts, bytes : 0..MaxBytes, enc : 0..MaxEnc,
             url : UrlPlaces, dec : SUBSET Kinds] :
        /\ (r.url = "plain") => (r.plain = 4 /\ r.enc = 0)
        /\ (r.url = "encrypted") => r.enc > 0
        /\ (r.enc = 0) => r.dec = {}
        /\ (r.enc > 0) => r.plain \in {0, 5}
        /\ r.dec \subseteq {k \in Kinds : compat[k]}
        /\ (r.bytes > 0) => (r.plain = 5 /\ r.enc = 0 /\ r.url = "none") }

\* how the fields of a binary are named; "alias": the field at rva 1 has a
\* spelling whose canonical form is the name a decryptor adds on its own
Namings == {"known", "ascii", "nonascii_first", "known_first", "alias"}

Markers == {"none", "lookup_fails", "ok"}

\* the region of a binary part that the parse never reads
NoRegion == [plain |-> 0, bytes |-> 0, enc |-> 0, url |-> "none", dec |-> {}]

SeqUpTo(S, n) == UNION {[1..m -> S] : m \in 0..n}

\* the candidate regions of a binary
RegionCount(b) == (IF b.marker = "none" THEN 0 ELSE 1) + Len(b.cctors)

\* binaries whose payload loads
LoadedBinaries ==
    UNION { UNION {
        { [file_ok |-> TRUE, load_ok |-> TRUE, marker |-> mk, compat |-> compat,
           body |-> body, cctors |-> cctors, naming |-> naming] :
            body \in (IF mk = "ok" THEN Regions(compat) ELSE {NoRegion}),
            cctors \in SeqUpTo(Regions(compat),
                               IF mk = "none" THEN MaxRegions ELSE MaxRegions - 1),
            naming \in Namings }
        : mk \in Markers } : compat \in [Kinds -> BOOLEAN] }

\* a missing file, and a file DotNetPEPayload cannot load
BrokenBinaries ==
    { [file_ok |-> f, load_ok |-> FALSE, marker |-> "none",
       compat |-> [k \in Kinds |-> FALSE], body |-> NoRegion, cctors |-> <<>>,
       naming |-> "known"] : f \in BOOLEAN }

Binaries == LoadedBinaries \cup BrokenBinaries

\* ------------------------------------------------------ the payload's API
\* self._dnpp.sha256, self._dnpp.yara_match
Sha256Of(b) == "sha256_of_payload"

YaraMatchOf(b) == "yara_match_of_payload"

\* the class of the name of the field at rva k
NameClass(naming, k) ==
    CASE naming = "known" -> "known"
      [] naming = "ascii" -> "ascii"
      [] naming = "nonascii_first" -> IF k = 11 THEN "nonascii" ELSE "known"
      [] naming = "alias" -> IF k = 1 THEN "alias" ELSE "known"
      [] OTHER -> IF k = 11 THEN "known" ELSE "nonascii"

\* self._dnpp.field_name_from_rva(k)
field_name_from_rva(b, k) ==
    IF k = 50 THEN UrlHost ELSE Name(NameClass(b.naming, k), k)

\* self._dnpp.user_string_from_rva(v)
user_string_from_rva(v) == Value("user_string", v.f, None)

\* self._dnpp.byte_array_from_size_and_rva(arr_size, arr_rva)
byte_array_from_size_and_rva(v) == Value("bytes", v.f, None)

\* item.parse_from(encrypted_config): <<field rva, raw value>> pairs.
\* Encrypted-string fields have rvas 1.., plain fields 11.., byte arrays
\* 31..; the field named UrlHost has rva 50 and is the last field of its
\* schema.
parse_from(item, r) ==
    LET n == CASE item = "plain" -> r.plain
               [] item = "bytearray" -> r.bytes
               [] OTHER -> r.enc
        base == CASE item = "plain" -> 10
                  [] item = "bytearray" -> 30
                  [] OTHER -> 0
        raw == CASE item = "plain" -> "plain"
                 [] item = "bytearray" -> "size_and_rva"
                 [] OTHER -> "string_rva"
        rva(i) == IF r.url = item /\ i = n THEN 50 ELSE base + i
    IN  [i \in 1..n |-> <<rva(i), Value(raw, rva(i), None)>>]

\* decryptor(self._dnpp): does the constructor of kind k return (TRUE) or
\* raise IncompatibleDecryptorException (FALSE)
ConstructorSucceeds(b, k) == b.compat[k]

\* does decrypt_encrypted_strings of an instance of kind k return for the
\* batch of region r
DecryptSucceeds(k, r) == k \in r.dec

\* what decrypt_encrypted_strings of an instance of kind k returns: every
\* value decrypted, and (kind 2) one field added by the decryptor
decrypt_encrypted_strings(k, data) ==
    LET out == [i \in DOMAIN data |-> <<data[i][1], Value("plaintext", data[i][2].f, k)>>]
    IN  IF k = 2 THEN Append(out, <<DynamicField, Value("dynamic", 0, k)>>) ELSE out

\* check_key_n_value(key_name, value): a known field name has a canonical
\* spelling, an alias is spelled as the field the decryptor adds, every other
\* name and every value is kept
check_key_n_value(key, value) ==
    IF key.cls = "known" THEN <<Name("canonical", key.id), value>>
    ELSE IF key.cls = "alias" THEN <<DynamicField, value>>
    ELSE <<key, value>>

\* ------------------------------------------------------------- exceptions
\* An exception is its type and its message, the message being the list of
\* the texts an f-string chained into it.
Exc(type, msg) == [type |-> type, msg |-> msg]

ConfigParserException(msg) == Exc("ConfigParserException", msg)

NoExc == Exc("none", <<>>)

\* the three forms of report["config"]: {} at construction, the recovered
\* mapping, or the text of line 106
EmptyConfig == [kind |-> "map", map |-> <<>>, err |-> <<>>]

MapConfig(m) == [kind |-> "map", map |-> m, err |-> <<>>]

ErrorConfig(msg) == [kind |-> "error", map |-> <<>>, err |-> msg]

\* ------------------------------------------- _decrypt_and_decode_config
\* lines 120-123: the field rvas of one schema's parse translated to names
ItemData(b, parsed) ==
    Update(<<>>, [i \in DOMAIN parsed |->
                    <<field_name_from_rva(b, parsed[i][1]), parsed[i][2]>>])

\* lines 120-122: config_fields_map after one schema's parse
FieldsMap(b, fields_map, parsed) ==
    Update(fields_map, [i \in DOMAIN parsed |->
                    <<parsed[i][1], field_name_from_rva(b, parsed[i][1])>>])

\* lines 127-128
UserStrings(data) ==
    [i \in DOMAIN data |-> <<data[i][1], user_string_from_rva(data[i][2])>>]

\* lines 163-167
ByteArrays(data) ==
    [i \in DOMAIN data |-> <<data[i][1], Hex(byte_array_from_size_and_rva(data[i][2]))>>]

\* line 132: is the registry kind skipped
NeverIncompatible(d, incompatible) == FALSE

IsIncompatible(d, incompatible) == InList(d, incompatible)

\* every iteration constructs its decryptor
AlwaysConstructs(current) == TRUE

\* line 135: is a decryptor constructed in this iteration
NeedsConstruction(current) == current = None

\* the check counts the fields only
ThresholdIgnoresUrlHost(decoded, data, min_len) == Len(decoded) < min_len

\* line 171: the minimum-threshold check
ThresholdNotExceeded(decoded, data, min_len) ==
    Len(decoded) <= min_len /\ ~HasKey(data, UrlHost)

ThresholdNotMet(decoded, data, min_len) ==
    Len(decoded) < min_len /\ ~HasKey(data, UrlHost)

\* sorted(S): the i-th element is the one with i - 1 smaller ones
SortedSeq(S) ==
    [i \in 1..Cardinality(S) |->
        CHOOSE x \in S : Cardinality({y \in S : y < x}) = i - 1]

RECURSIVE RemapPass(_, _, _, _, _)
\* lines 178-184: the pass over the sorted field rvas; the result is
\* <<sorted_decoded_config, normalized_fields>>
RemapPass(rvas, fields_map, decoded, sorted_cfg, normalized) ==
    IF rvas = <<>> THEN <<sorted_cfg, normalized>>
    ELSE LET key_name == Get(fields_map, rvas[1])
             kv == check_key_n_value(key_name, Get(decoded, key_name))
         IN  CHOOSE r \in
                {RemapPass(rest, fields_map, decoded, cfg, norm) :
                    rest \in {Tail(rvas)},
                    cfg \in {Put(sorted_cfg, kv[1], kv[2])},
                    norm \in {IF kv[1] # key_name THEN Append(normalized, key_name)
                              ELSE normalized}} : TRUE

\* line 180: decoded_config[key_name] raises KeyError
RemapRaises(decoded, fields_map) ==
    \E i \in DOMAIN fields_map : ~HasKey(decoded, fields_map[i][2])

\* the fields the decryptors added are not appended
RemapPassOnly(decoded, fields_map) ==
    RemapPass(SortedSeq(Keys(fields_map)), fields_map, decoded, <<>>, <<>>)[1]

\* lines 176-193
Remap(decoded, fields_map) ==
    LET pass == RemapPass(SortedSeq(Keys(fields_map)), fields_map, decoded, <<>>, <<>>)
        rest == SelectSeq(decoded, LAMBDA kv :
                    ~HasKey(pass[1], kv[1]) /\ ~InList(kv[1], pass[2]))
    IN  Update(pass[1], rest)

\* ------------------------------------------- _is_likely_obfuscated_config
\* a known name anywhere in the mapping decides
KnownAnywhere(keys) == ~\E i \in DOMAIN keys : IsKnownFieldName(keys[i])

RECURSIVE ScanKeys(_)
\* lines 297-302 over the keys in iteration order
ScanKeys(keys) ==
    IF keys = <<>> THEN TRUE
    ELSE IF ~isascii(keys[1]) THEN TRUE
    ELSE IF IsKnownFieldName(keys[1]) THEN FALSE
    ELSE ScanKeys(Tail(keys))

is_likely_obfuscated_config(config) == ScanKeys(KeySeq(config))

\* the placeholder keys are numbered from 0
TranslateKeysFromZero(config) ==
    [i \in DOMAIN config |-> <<ObfuscatedKey(i - 1), config[i][2]>>]

\* lines 217-220
TranslateKeys(config) ==
    [i \in DOMAIN config |-> <<ObfuscatedKey(i), config[i][2]>>]

\* lines 211-222: what _get_config returns for the located config
FinalConfig(config, preserve) ==
    IF ~preserve /\ is_likely_obfuscated_config(config)
    THEN TranslateKeys(config)
    ELSE config

\* ------------------------------------------------------------------ state
VARIABLES
    bin,                      \* the binary (file_path / data behind self._dnpp)
    remap_config,             \* self.remap_config
    preserve_obfuscated_keys, \* self.preserve_obfuscated_keys
    pc,                       \* where the parse stands
    report,                   \* self.report
    incompatible_decryptors,  \* self._incompatible_decryptors
    decryptor,                \* self._decryptor: None or the kind of the instance
    a_state,                  \* _get_config_verify_hash_method: notrun/running/returned/raised
    b_state,                  \* _get_config_cctor_brute_force: notrun/running/returned/raised
    min_config_len,           \* min_config_len of the running strategy
    cand,                     \* position in candidate_cctor_data (0 in strategy A)
    encrypted_config,         \* the method body being decoded
    item_idx,                 \* position in SUPPORTED_CONFIG_ITEMS
    dec_idx,                  \* position in SUPPORTED_DECRYPTORS
    decoded_config,
    config_fields_map,
    item_data,
    ret,                      \* how the last _decrypt_and_decode_config call ended
    found,                    \* config_start, decrypted_config of _get_config
    attempts,                 \* history: the completed decode calls
    ctor_log,                 \* history: the decryptor constructor calls
    batch_log                 \* history: the decryptor calls for the current batch

inputs == <<bin, remap_config, preserve_obfuscated_keys>>

selection == <<incompatible_decryptors, decryptor>>

strategy == <<a_state, b_state, min_config_len, cand, encrypted_config, found>>

frame == <<item_idx, dec_idx, decoded_config, config_fields_map, item_data>>

history == <<attempts, ctor_log, batch_log>>

vars == <<inputs, pc, report, selection, strategy, frame, ret, history>>

NotFound == [some |-> FALSE, start |-> 0, config |-> <<>>]

NoRet == [ok |-> FALSE, val |-> <<>>, exc |-> NoExc]

\* method.rva of the marker-adjacent method and of the i-th .cctor
ConfigMethodRva == 100

CctorRva(i) == 200 + i

Init ==
    /\ bin \in Binaries
    /\ remap_config \in BOOLEAN
    /\ preserve_obfuscated_keys \in BOOLEAN
    /\ (~bin.load_ok) => (~remap_config /\ ~preserve_obfuscated_keys)
    \* the arguments and the naming vary on the binaries below the region bound
    /\ (remap_config \/ preserve_obfuscated_keys \/ bin.naming # "known")
            => RegionCount(bin) < MaxRegions
    /\ pc = "init"
    /\ report = [sha256 |-> "", yara_possible_family |-> "",
                 key |-> Value("empty", 0, 0), salt |-> Value("empty", 0, 0),
                 config |-> EmptyConfig]
    /\ incompatible_decryptors = <<>>
    /\ decryptor = None
    /\ a_state = "notrun"
    /\ b_state = "notrun"
    /\ min_config_len = 0
    /\ cand = 0
    /\ encrypted_config = NoRegion
    /\ item_idx = 0
    /\ dec_idx = 0
    /\ decoded_config = <<>>
    /\ config_fields_map = <<>>
    /\ item_data = <<>>
    /\ ret = NoRet
    /\ found = NotFound
    /\ attempts = <<>>
    /\ ctor_log = <<>>
    /\ batch_log = <<>>

\* ------------------------------------------------------------- __init__
\* line 105: which exceptions the handler of __init__ catches
CatchesOnlyParserExceptions(e) == e.type = "ConfigParserException"

Catches(e) == TRUE

\* lines 105-106: an exception e leaves the try block of __init__
Terminal(e) ==
    IF Catches(e)
    THEN /\ report' = [report EXCEPT
                !.config = ErrorConfig(<<"Exception encountered for file_path">> \o e.msg)]
         /\ pc' = "done"
    ELSE /\ pc' = "raised"
         /\ UNCHANGED report

\* lines 80-93: the file check, the payload, the digest and the family hint
Construct ==
    /\ pc = "init"
    /\ IF ~bin.file_ok
       THEN /\ Terminal(ConfigParserException(<<"File not found">>))
            /\ UNCHANGED <<selection, a_state>>
       ELSE /\ incompatible_decryptors' = <<>>
            /\ IF ~bin.load_ok
               THEN /\ Terminal(Exc("Exception", <<"payload could not be loaded">>))
                    /\ UNCHANGED <<decryptor, a_state>>
               ELSE /\ report' = [report EXCEPT
                            !.sha256 = Sha256Of(bin),
                            !.yara_possible_family = YaraMatchOf(bin)]
                    /\ decryptor' = None
                    /\ a_state' = "running"
                    /\ pc' = "verify_hash"
    /\ UNCHANGED <<inputs, b_state, min_config_len, cand, encrypted_config, found,
                   frame, ret, history>>

\* the entry of _decrypt_and_decode_config(region, ...): lines 113-114
StartDecode(region) ==
    /\ encrypted_config' = region
    /\ item_idx' = 1
    /\ dec_idx' = 0
    /\ decoded_config' = <<>>
    /\ config_fields_map' = <<>>
    /\ item_data' = <<>>
    /\ batch_log' = <<>>
    /\ pc' = "item"

\* the pc of the caller's handling of the decode call's outcome
RetPc == IF cand = 0 THEN "verify_hash_ret" ELSE "cctor_ret"

\* _decrypt_and_decode_config returns val or raises exc
Return(ok, val, exc) ==
    /\ ret' = [ok |-> ok, val |-> val, exc |-> exc]
    /\ attempts' = Append(attempts,
            [strategy |-> IF cand = 0 THEN "A" ELSE "B",
             min_config_len |-> min_config_len, cand |-> cand, ok |-> ok,
             exc |-> exc.msg,
             \* the encrypted-string batch of this call: none, decrypted, failed
             batch |-> IF dec_idx = 0 THEN "none"
                       ELSE IF decryptor = None THEN "failed" ELSE "decrypted",
             \* the kind of the instance that decrypted it
             by |-> IF dec_idx = 0 THEN None ELSE decryptor,
             \* the kinds skipped as incompatible or asked to decrypt it
             incompatible |-> {k \in Kinds : InList(k, incompatible_decryptors)},
             asked |-> {batch_log[i].kind : i \in
                            {j \in DOMAIN batch_log : batch_log[j].op = "decrypt"}}])
    /\ pc' = RetPc

FallbackAlways(returned) == "cctor"

\* lines 200-207: where _get_config goes on after strategy A returned
\* (returned) or raised
Fallback(returned) == IF returned THEN "post" ELSE "cctor"

\* lines 271-283: the marker search and the lookup of the following method
GetConfigVerifyHashMethod ==
    /\ pc = "verify_hash"
    /\ IF bin.marker = "ok"
       THEN /\ min_config_len' = MIN_CONFIG_LEN_CEILING
            /\ StartDecode(bin.body)
            /\ UNCHANGED a_state
       ELSE \* line 275 or line 279 raises; line 202 catches
            /\ a_state' = "raised"
            /\ pc' = Fallback(FALSE)
            /\ UNCHANGED <<min_config_len, encrypted_config, frame, batch_log>>
    /\ UNCHANGED <<inputs, report, selection, b_state, cand, found, ret,
                   attempts, ctor_log>>

\* the for loop of line 116 moves to the next item schema, or ends
NextItem ==
    /\ item_idx' = item_idx + 1
    /\ pc' = IF item_idx + 1 > Len(SUPPORTED_CONFIG_ITEMS) THEN "finish" ELSE "item"

\* lines 116-129 and 162-169: one item schema applied to the method body
DecodeItem ==
    /\ pc = "item"
    /\ LET item == SUPPORTED_CONFIG_ITEMS[item_idx]
           parsed == parse_from(item, encrypted_config)
           data == ItemData(bin, parsed)
       IN  /\ config_fields_map' = FieldsMap(bin, config_fields_map, parsed)
           /\ IF Len(data) = 0
              THEN /\ item_data' = data
                   /\ NextItem
                   /\ UNCHANGED <<dec_idx, decoded_config, batch_log>>
              ELSE IF item = "encrypted"
              THEN /\ item_data' = UserStrings(data)
                   /\ dec_idx' = 1
                   /\ batch_log' = <<>>
                   /\ pc' = "decryptor"
                   /\ UNCHANGED <<item_idx, decoded_config>>
              ELSE IF item = "bytearray"
              THEN /\ item_data' = ByteArrays(data)
                   /\ decoded_config' = Update(decoded_config, ByteArrays(data))
                   /\ NextItem
                   /\ UNCHANGED <<dec_idx, batch_log>>
              ELSE /\ item_data' = data
                   /\ decoded_config' = Update(decoded_config, data)
                   /\ NextItem
                   /\ UNCHANGED <<dec_idx, batch_log>>
    /\ UNCHANGED <<inputs, report, selection, strategy, ret, attempts, ctor_log>>

\* the loop over the registry stays at the same kind
NextDecryptorStays ==
    /\ dec_idx' = dec_idx
    /\ pc' = "decryptor"

\* the for loop of line 131 moves to the next registry kind, or ends
NextDecryptor ==
    /\ dec_idx' = dec_idx + 1
    /\ pc' = IF dec_idx + 1 > Len(SUPPORTED_DECRYPTORS) THEN "decrypted" ELSE "decryptor"

\* the output of decrypt_encrypted_strings is not stored
TryDecryptDropsOutput(d, inst, log) ==
    IF DecryptSucceeds(inst, encrypted_config)
    THEN /\ decryptor' = inst
         /\ batch_log' = Append(log,
                [op |-> "decrypt", slot |-> d, kind |-> inst, ok |-> TRUE])
         /\ pc' = "decrypted"
         /\ UNCHANGED <<dec_idx, item_data>>
    ELSE /\ decryptor' = None
         /\ batch_log' = Append(log,
                [op |-> "decrypt", slot |-> d, kind |-> inst, ok |-> FALSE])
         /\ dec_idx' = dec_idx + 1
         /\ pc' = IF dec_idx + 1 > Len(SUPPORTED_DECRYPTORS) THEN "decrypted" ELSE "decryptor"
         /\ UNCHANGED item_data

\* a failed decryption leaves the selection in place
TryDecryptKeepsSelection(d, inst, log) ==
    IF DecryptSucceeds(inst, encrypted_config)
    THEN /\ item_data' = decrypt_encrypted_strings(inst, item_data)
         /\ decryptor' = inst
         /\ batch_log' = Append(log,
                [op |-> "decrypt", slot |-> d, kind |-> inst, ok |-> TRUE])
         /\ pc' = "decrypted"
         /\ UNCHANGED dec_idx
    ELSE /\ decryptor' = inst
         /\ batch_log' = Append(log,
                [op |-> "decrypt", slot |-> d, kind |-> inst, ok |-> FALSE])
         /\ dec_idx' = dec_idx + 1
         /\ pc' = IF dec_idx + 1 > Len(SUPPORTED_DECRYPTORS) THEN "decrypted" ELSE "decryptor"
         /\ UNCHANGED item_data

\* lines 146-157: the active instance (of kind inst) is asked to decrypt
\* the batch, in the iteration of registry kind d
TryDecrypt(d, inst, log) ==
    IF DecryptSucceeds(inst, encrypted_config)
    THEN /\ item_data' = decrypt_encrypted_strings(inst, item_data)
         /\ decryptor' = inst
         /\ batch_log' = Append(log,
                [op |-> "decrypt", slot |-> d, kind |-> inst, ok |-> TRUE])
         /\ pc' = "decrypted"
         /\ UNCHANGED dec_idx
    ELSE /\ decryptor' = None
         /\ batch_log' = Append(log,
                [op |-> "decrypt", slot |-> d, kind |-> inst, ok |-> FALSE])
         /\ NextDecryptor
         /\ UNCHANGED item_data

\* lines 131-157: one iteration of the loop over the registry
DecryptorStep ==
    /\ pc = "decryptor"
    /\ LET d == SUPPORTED_DECRYPTORS[dec_idx]
       IN  IF IsIncompatible(d, incompatible_decryptors)
           THEN /\ NextDecryptor
                /\ UNCHANGED <<selection, item_data, ctor_log, batch_log>>
           ELSE IF NeedsConstruction(decryptor)
           THEN IF ConstructorSucceeds(bin, d)
                THEN /\ ctor_log' = Append(ctor_log, [kind |-> d, ok |-> TRUE])
                     /\ TryDecrypt(d, d, Append(batch_log,
                            [op |-> "construct", slot |-> d, kind |-> d, ok |-> TRUE]))
                     /\ UNCHANGED incompatible_decryptors
                ELSE /\ ctor_log' = Append(ctor_log, [kind |-> d, ok |-> FALSE])
                     /\ batch_log' = Append(batch_log,
                            [op |-> "construct", slot |-> d, kind |-> d, ok |-> FALSE])
                     /\ incompatible_decryptors' = Append(incompatible_decryptors, d)
                     /\ NextDecryptor
                     /\ UNCHANGED <<decryptor, item_data>>
           ELSE /\ TryDecrypt(d, decryptor, batch_log)
                /\ UNCHANGED <<incompatible_decryptors, ctor_log>>
    /\ UNCHANGED <<inputs, report, strategy, item_idx, decoded_config,
                   config_fields_map, ret, attempts>>

\* the batch is stored whether or not a decryptor is active
DecryptDoneStoresAlways ==
    /\ pc = "decrypted"
    /\ decoded_config' = Update(decoded_config, item_data)
    /\ NextItem
    /\ UNCHANGED <<ret, attempts>>
    /\ UNCHANGED <<inputs, report, selection, strategy, dec_idx, config_fields_map,
                   item_data, ctor_log, batch_log>>

\* lines 159-160 and 169: after the loop over the registry
DecryptDone ==
    /\ pc = "decrypted"
    /\ IF decryptor = None
       THEN /\ Return(FALSE, <<>>, ConfigParserException(<<"All decryptors failed">>))
            /\ UNCHANGED <<item_idx, decoded_config>>
       ELSE /\ decoded_config' = Update(decoded_config, item_data)
            /\ NextItem
            /\ UNCHANGED <<ret, attempts>>
    /\ UNCHANGED <<inputs, report, selection, strategy, dec_idx, config_fields_map,
                   item_data, ctor_log, batch_log>>

\* lines 170-194: the threshold check, the remapping and the return
DecodeFinish ==
    /\ pc = "finish"
    /\ IF ThresholdNotMet(decoded_config, item_data, min_config_len)
       THEN Return(FALSE, <<>>,
                ConfigParserException(<<"Minimum threshold of config items not met">>))
       ELSE IF remap_config
       THEN IF RemapRaises(decoded_config, config_fields_map)
            THEN Return(FALSE, <<>>, Exc("KeyError", <<"key_name">>))
            ELSE Return(TRUE, Remap(decoded_config, config_fields_map), NoExc)
       ELSE Return(TRUE, decoded_config, NoExc)
    /\ UNCHANGED <<inputs, report, selection, strategy, frame, ctor_log, batch_log>>

\* line 292: has the retry loop of strategy A reached its last threshold
GivesUp(len) == len < MIN_CONFIG_LEN_FLOOR

\* lines 284-294: the retry loop of _get_config_verify_hash_method
VerifyHashRetry ==
    /\ pc = "verify_hash_ret"
    /\ IF ret.ok
       THEN /\ found' = [some |-> TRUE, start |-> ConfigMethodRva, config |-> ret.val]
            /\ a_state' = "returned"
            /\ pc' = Fallback(TRUE)
            /\ UNCHANGED <<min_config_len, encrypted_config, frame, batch_log>>
       ELSE IF GivesUp(min_config_len)
       THEN \* line 293 raises; line 202 catches
            /\ a_state' = "raised"
            /\ pc' = Fallback(FALSE)
            /\ UNCHANGED <<min_config_len, encrypted_config, found, frame, batch_log>>
       ELSE /\ min_config_len' = min_config_len - 1
            /\ StartDecode(bin.body)
            /\ UNCHANGED <<a_state, found>>
    /\ UNCHANGED <<inputs, report, selection, b_state, cand, ret, attempts, ctor_log>>

Reraised(e) == e

\* lines 208-209: _get_config_cctor_brute_force raised e
CouldNotIdentify(e) ==
    ConfigParserException(<<"Could not identify config">> \o e.msg)

\* lines 229-244: the enumeration of the static constructors
GetConfigCctorBruteForce ==
    /\ pc = "cctor"
    /\ IF Len(bin.cctors) = 0
       THEN /\ b_state' = "raised"
            /\ Terminal(CouldNotIdentify(
                    ConfigParserException(<<"No .cctor method could be found">>)))
            /\ UNCHANGED <<min_config_len, cand, encrypted_config, frame, batch_log>>
       ELSE /\ b_state' = "running"
            /\ min_config_len' = MIN_CONFIG_LEN_CEILING
            /\ cand' = 1
            /\ StartDecode(bin.cctors[1])
            /\ UNCHANGED report
    /\ UNCHANGED <<inputs, selection, a_state, found, ret, attempts, ctor_log>>

LoopsAboveFloor(none_yet, len) == none_yet /\ len > MIN_CONFIG_LEN_FLOOR

\* line 243: the condition of the while loop
LoopsOn(none_yet, len) == none_yet /\ len >= MIN_CONFIG_LEN_FLOOR

\* lines 243-266: the loops of _get_config_cctor_brute_force after a decode
BruteForceNext ==
    /\ pc = "cctor_ret"
    /\ IF ret.ok
       THEN \* break, line 260, the while loop ends, line 266
            /\ found' = [some |-> TRUE, start |-> CctorRva(cand), config |-> ret.val]
            /\ min_config_len' = min_config_len - 1
            /\ b_state' = "returned"
            /\ pc' = "post"
            /\ UNCHANGED <<report, cand, encrypted_config, frame, batch_log>>
       ELSE IF cand < Len(bin.cctors)
       THEN /\ cand' = cand + 1
            /\ StartDecode(bin.cctors[cand + 1])
            /\ UNCHANGED <<report, b_state, min_config_len, found>>
       ELSE /\ min_config_len' = min_config_len - 1
            /\ IF LoopsOn(~found.some, min_config_len - 1)
               THEN /\ cand' = 1
                    /\ StartDecode(bin.cctors[1])
                    /\ UNCHANGED <<report, b_state, found>>
               ELSE /\ b_state' = "raised"
                    /\ Terminal(CouldNotIdentify(ConfigParserException(
                        <<"No valid configuration could be parsed from any .cctor methods">>)))
                    /\ UNCHANGED <<cand, encrypted_config, found, frame, batch_log>>
    /\ UNCHANGED <<inputs, selection, a_state, ret, attempts, ctor_log>>

\* lines 210-222 and 94-104: the obfuscation heuristic and the report
Finish ==
    /\ pc = "post"
    /\ report' = [report EXCEPT
            !.config = MapConfig(FinalConfig(found.config, preserve_obfuscated_keys)),
            !.key = IF decryptor # None /\ DecryptorKey(decryptor).t # "None"
                    THEN Hex(DecryptorKey(decryptor)) ELSE NoneString,
            !.salt = IF decryptor # None /\ DecryptorSalt(decryptor).t # "None"
                     THEN Hex(DecryptorSalt(decryptor)) ELSE NoneString]
    /\ pc' = "done"
    /\ UNCHANGED <<inputs, selection, strategy, frame, ret, history>>

Next ==
    \/ Construct
    \/ GetConfigVerifyHashMethod
    \/ DecodeItem
    \/ DecryptorStep
    \/ DecryptDone
    \/ DecodeFinish
    \/ VerifyHashRetry
    \/ GetConfigCctorBruteForce
    \/ BruteForceNext
    \/ Finish

Spec == Init /\ [][Next]_vars

\* The parse is single-threaded and synchronous: a step that can be taken is
\* taken.
FairSpec == Spec /\ WF_vars(Next)

\* ================================================================ claims
\* the completed decode calls of one strategy, in call order
AttemptsOf(strat) == SelectSeq(attempts, LAMBDA a : a.strategy = strat)

\* C1: whenever strategy A returns a configuration, the mapping it returns
\* has at least MIN_CONFIG_LEN_FLOOR (5) fields, unless the field set checked
\* for the carve-out (item_data of the last item schema) contains UrlHost.
C1_StrategyAKeepsFloor ==
    (a_state = "returned") =>
        (Len(found.config) >= MIN_CONFIG_LEN_FLOOR \/ HasKey(item_data, UrlHost))

\* C2: the decode calls of strategy B run through the thresholds 9, 8, 7, 6, 5
\* in that order, each threshold against every static constructor in
\* enumeration order; a successful call is the last one, no decode runs after
\* it, and what strategy B returns is that call's result.
C2_BruteForceOrder ==
    LET bs == AttemptsOf("B")
        n == Len(bin.cctors)
    IN  /\ \A i \in DOMAIN bs :
            /\ bs[i].min_config_len = MIN_CONFIG_LEN_CEILING - ((i - 1) \div n)
            /\ bs[i].min_config_len >= MIN_CONFIG_LEN_FLOOR
            /\ bs[i].cand = ((i - 1) % n) + 1
            /\ bs[i].ok => (i = Len(bs) /\ pc \in {"cctor_ret", "post", "done"})
        /\ (b_state = "returned") =>
            /\ bs # <<>>
            /\ bs[Len(bs)].ok
            /\ found = [some |-> TRUE, start |-> CctorRva(bs[Len(bs)].cand),
                        config |-> ret.val]
        /\ (b_state = "raised" /\ n > 0) =>
            /\ Len(bs) = n * (MIN_CONFIG_LEN_CEILING - MIN_CONFIG_LEN_FLOOR + 1)
            /\ \A i \in DOMAIN bs : ~bs[i].ok

\* C2 witness: strategy B returned the second constructor's decode, accepted
\* at a threshold below the ceiling after both had failed at the ceiling
C2_Witness ==
    /\ b_state = "returned"
    /\ Len(bin.cctors) = 2
    /\ found.start = CctorRva(2)
    /\ Len(AttemptsOf("B")) > 2

\* C3: once the constructor of a decryptor kind has raised
\* IncompatibleDecryptorException, no later constructor call of the parse is
\* for that kind.
C3_IncompatibleNeverReconstructed ==
    \A i, j \in DOMAIN ctor_log :
        (i < j /\ ~ctor_log[i].ok) => ctor_log[j].kind # ctor_log[i].kind

\* C3 witness: kind 1 was found incompatible in strategy A, and kind 2 was
\* constructed for two later batches, one of them in strategy B
C3_Witness ==
    /\ \E i, j, l \in DOMAIN ctor_log :
        /\ i < j /\ j < l
        /\ ctor_log[i] = [kind |-> 1, ok |-> FALSE]
        /\ ctor_log[j].kind = 2
        /\ ctor_log[l].kind = 2
    /\ a_state = "raised"
    /\ \E i \in DOMAIN attempts : attempts[i].strategy = "B" /\ attempts[i].batch # "none"

\* C4: _decrypt_and_decode_config raises "All decryptors failed" only after
\* every registry kind that is not marked incompatible has been asked to
\* decrypt the batch and has failed.
C4_AllCompatibleKindsAsked ==
    (pc \in {"verify_hash_ret", "cctor_ret"} /\ ret.exc.msg = <<"All decryptors failed">>) =>
        \A k \in Kinds :
            ~InList(k, incompatible_decryptors) =>
                \E i \in DOMAIN batch_log :
                    /\ batch_log[i].op = "decrypt"
                    /\ batch_log[i].kind = k
                    /\ ~batch_log[i].ok

\* the parse located a configuration, the obfuscation heuristic is consulted
\* (line 211) and the report is written
Classified == pc = "done" /\ found.some /\ ~preserve_obfuscated_keys

\* the report holds the located configuration under obfuscated_key_<i> keys
KeysTranslated == report.config = MapConfig(TranslateKeys(found.config))

\* C5 as stated: a mapping with a non-ASCII key anywhere is classified
\* obfuscated.
C5_AnyNonAsciiKeyObfuscated ==
    (Classified /\ \E i \in DOMAIN found.config : ~isascii(found.config[i][1]))
        => KeysTranslated

\* C5 amended: a mapping with a non-ASCII key that no known field name
\* precedes in iteration order is classified obfuscated, even when a later
\* key is a known field name.
C5_NonAsciiKeyBeforeKnownObfuscated ==
    (Classified /\ \E i \in DOMAIN found.config :
            /\ ~isascii(found.config[i][1])
            /\ \A j \in 1..(i - 1) : ~IsKnownFieldName(found.config[j][1]))
        => KeysTranslated

\* C5 witness: the first key is not ASCII, a later key is a known name, and
\* the keys were translated
C5_Witness ==
    /\ Classified
    /\ Len(found.config) >= 2
    /\ ~isascii(found.config[1][1])
    /\ \E j \in 2..Len(found.config) : IsKnownFieldName(found.config[j][1])
    /\ KeysTranslated

\* the constructor returns: no exception escapes, and the report's config is
\* the recovered mapping or an error text
NeverRaises ==
    /\ pc # "raised"
    /\ (pc = "done") =>
        \/ report.config.kind = "error" /\ report.config.err # <<>>
        \/ /\ found.some
           /\ report.config = MapConfig(FinalConfig(found.config, preserve_obfuscated_keys))

\* a terminal failure of a loaded payload comes after both strategies failed
\* at all their thresholds
StrategiesExhausted ==
    (pc = "done" /\ report.config.kind = "error" /\ bin.load_ok) =>
        /\ a_state = "raised" /\ b_state = "raised"
        /\ \A i \in DOMAIN attempts : ~attempts[i].ok
        /\ (bin.marker = "ok") =>
            \A t \in MIN_CONFIG_LEN_FLOOR..MIN_CONFIG_LEN_CEILING :
                \E i \in DOMAIN attempts :
                    attempts[i].strategy = "A" /\ attempts[i].min_config_len = t
        /\ \A t \in MIN_CONFIG_LEN_FLOOR..MIN_CONFIG_LEN_CEILING :
            \A c \in DOMAIN bin.cctors :
                \E i \in DOMAIN attempts :
                    /\ attempts[i].strategy = "B"
                    /\ attempts[i].min_config_len = t
                    /\ attempts[i].cand = c

\* a terminal failure comes after every decode call that failed on its
\* decryptors had asked every kind not marked incompatible
DecryptorsExhausted ==
    (pc = "done" /\ report.config.kind = "error") =>
        \A i \in DOMAIN attempts :
            (attempts[i].batch = "failed") =>
                (Kinds \ attempts[i].incompatible) \subseteq attempts[i].asked

\* C6: constructing a RATConfigParser never raises; the report's config is
\* the recovered mapping or an error text, and a terminal failure is reported
\* only after both strategies, all thresholds and all decryptors are
\* exhausted.
C6_NeverRaisesAndExhaustsFallbacks ==
    NeverRaises /\ StrategiesExhausted /\ DecryptorsExhausted

\* C6 without the decryptors: what holds of the code
C6_NeverRaisesAndExhaustsStrategies == NeverRaises /\ StrategiesExhausted

\* the payload loads and has neither the marker nor a static constructor
NoMarkerNoCctor == bin.load_ok /\ bin.marker = "none" /\ bin.cctors = <<>>

\* C7: for a loaded payload with neither the marker nor a static
\* constructor, the report's config is an error text with the
\* could-not-identify-config context, and sha256 and the family hint hold the
\* payload's values.
C7_NoConfigFoundReport ==
    (pc = "done" /\ NoMarkerNoCctor) =>
        /\ report.config.kind = "error"
        /\ InList("Could not identify config", report.config.err)
        /\ report.sha256 = Sha256Of(bin)
        /\ report.yara_possible_family = YaraMatchOf(bin)

\* C7 witness: such a parse ended
C7_Witness ==
    /\ pc = "done"
    /\ NoMarkerNoCctor
    /\ report.config.err = <<"Exception encountered for file_path",
                             "Could not identify config",
                             "No .cctor method could be found">>

\* the payload loads, has no marker, and its one static constructor decodes
\* to n plain fields, 5 <= n <= 9, and nothing else
PlainCctorOnly ==
    /\ bin.load_ok
    /\ bin.marker = "none"
    /\ Len(bin.cctors) = 1
    /\ bin.cctors[1].enc = 0
    /\ bin.cctors[1].bytes = 0
    /\ bin.cctors[1].plain >= MIN_CONFIG_LEN_FLOOR
    /\ bin.cctors[1].plain <= MIN_CONFIG_LEN_CEILING

\* the resolved names of those fields with their values
PlainFieldsOfCctor == ItemData(bin, parse_from("plain", bin.cctors[1]))

\* such a parse goes through strategy B, is accepted at a threshold <= n,
\* and reports key and salt as "None"
PlainCctorRoute ==
    /\ a_state = "raised"
    /\ AttemptsOf("A") = <<>>
    /\ b_state = "returned"
    /\ LET bs == AttemptsOf("B")
       IN  /\ bs # <<>>
           /\ bs[Len(bs)].ok
           /\ bs[Len(bs)].min_config_len <= bin.cctors[1].plain
    /\ report.key = NoneString
    /\ report.salt = NoneString

\* C8 as stated: such a parse goes through strategy B, is accepted at a
\* threshold <= n, and the report's configuration is exactly the n resolved
\* field names with their values, key and salt being "None".
C8_PlainCctorReportsItsFields ==
    (pc = "done" /\ PlainCctorOnly) =>
        /\ PlainCctorRoute
        /\ report.config = MapConfig(PlainFieldsOfCctor)

\* C8 amended: the route, the threshold and key and salt are as stated; the
\* configuration is exactly the n resolved names with their values when
\* remap_config is off and the keys are kept (preserve_obfuscated_keys is
\* set, or the mapping is classified not obfuscated).
C8_PlainCctorReportsItsFieldsWhenKeysKept ==
    (pc = "done" /\ PlainCctorOnly) =>
        /\ PlainCctorRoute
        /\ (~remap_config /\ (preserve_obfuscated_keys
                              \/ ~is_likely_obfuscated_config(PlainFieldsOfCctor)))
            => report.config = MapConfig(PlainFieldsOfCctor)

\* C8 witness: a constructor of 5 plain fields, accepted at threshold 5 and
\* reported under its field names
C8_Witness ==
    /\ pc = "done"
    /\ PlainCctorOnly
    /\ bin.cctors[1].plain = 5
    /\ ~remap_config /\ ~preserve_obfuscated_keys
    /\ Len(report.config.map) = 5
    /\ report.config = MapConfig(PlainFieldsOfCctor)
    /\ attempts[Len(attempts)].min_config_len = 5

\* the kind registered first
FirstKind == SUPPORTED_DECRYPTORS[1]

\* an instance of the first kind decrypted the current batch
FirstKindDecryptedBatch ==
    \E i \in DOMAIN batch_log :
        /\ batch_log[i].op = "decrypt"
        /\ batch_log[i].kind = FirstKind
        /\ batch_log[i].ok

\* what the first kind returns for the batch of the method body
FirstKindOutput ==
    decrypt_encrypted_strings(FirstKind,
        UserStrings(ItemData(bin, parse_from("encrypted", encrypted_config))))

\* the values of that batch are the first kind's output, in item_data and
\* then in the decoded mapping, and no other kind was constructed or asked
FirstKindBatch ==
    /\ (pc = "decrypted" /\ FirstKindDecryptedBatch) =>
        /\ item_data = FirstKindOutput
        /\ \A i \in DOMAIN batch_log : batch_log[i].kind = FirstKind
    /\ (pc = "finish" /\ FirstKindDecryptedBatch) =>
        \A i \in DOMAIN FirstKindOutput :
            /\ HasKey(decoded_config, FirstKindOutput[i][1])
            /\ Get(decoded_config, FirstKindOutput[i][1]) = FirstKindOutput[i][2]

\* the report holds the hex of the first kind's key and salt
ReportsFirstKindKey ==
    /\ report.key = Hex(DecryptorKey(FirstKind))
    /\ report.salt = Hex(DecryptorSalt(FirstKind))

\* the decode calls that had an encrypted-string batch
BatchAttempts == SelectSeq(attempts, LAMBDA a : a.batch # "none")

\* C9 as stated: when the first kind decrypts a batch, the batch's values are
\* its output, no other kind is constructed or asked for that batch, and the
\* report holds the hex of its key and salt.
C9_FirstKindRoundTrip ==
    /\ FirstKindBatch
    /\ (/\ pc = "done"
        /\ report.config.kind = "map"
        /\ \E i \in DOMAIN attempts : attempts[i].by = FirstKind)
        => ReportsFirstKindKey

\* C9 amended: the values and the other kinds as stated; the report holds the
\* hex of its key and salt when the parse succeeds and that batch is the last
\* encrypted-string batch of the parse.
C9_FirstKindRoundTripLastBatch ==
    /\ FirstKindBatch
    /\ (/\ pc = "done"
        /\ report.config.kind = "map"
        /\ BatchAttempts # <<>>
        /\ BatchAttempts[Len(BatchAttempts)].by = FirstKind)
        => ReportsFirstKindKey

\* C9 witness: the first kind decrypted the batch of the accepted decode,
\* whose values are in the reported configuration, with its key and salt
C9_Witness ==
    /\ pc = "done"
    /\ report.config.kind = "map"
    /\ attempts[Len(attempts)].by = FirstKind
    /\ ReportsFirstKindKey
    /\ ~remap_config
    /\ \E i \in DOMAIN found.config :
        found.config[i][2].t = "plaintext" /\ found.config[i][2].k = FirstKind

\* C10: strategy B is started if and only if strategy A has raised (no
\* marker, no method, or every decode of its retry loop failed); when A
\* returns, no static constructor is enumerated or decoded; and "Could not
\* identify config" is reported only after both have raised.
C10_StrategiesInOrder ==
    /\ (b_state # "notrun") => a_state = "raised"
    /\ (a_state = "raised") => (b_state # "notrun" \/ pc = "cctor")
    /\ (a_state = "raised") =>
        IF bin.marker = "ok"
        THEN /\ \A i \in DOMAIN attempts :
                    attempts[i].strategy = "A" => ~attempts[i].ok
             /\ \A t \in MIN_CONFIG_LEN_FLOOR..MIN_CONFIG_LEN_CEILING :
                    \E i \in DOMAIN attempts :
                        attempts[i].strategy = "A" /\ attempts[i].min_config_len = t
        ELSE AttemptsOf("A") = <<>>
    /\ (a_state = "returned") =>
        /\ b_state = "notrun"
        /\ cand = 0
        /\ AttemptsOf("B") = <<>>
    /\ InList("Could not identify config", report.config.err) =>
        (a_state = "raised" /\ b_state = "raised")

\* C10 witness: every decode of strategy A failed, then strategy B returned
C10_Witness ==
    /\ pc = "done"
    /\ bin.marker = "ok"
    /\ a_state = "raised"
    /\ b_state = "returned"
    /\ AttemptsOf("A") # <<>>

\* the incompatible list holds no kind twice
NoKindTwice ==
    \A i, j \in DOMAIN incompatible_decryptors :
        (i # j) => incompatible_decryptors[i] # incompatible_decryptors[j]

\* a step leaves the incompatible list alone, or appends to it a kind that is
\* not in it and whose constructor has just raised
IncompatibleStep ==
    \/ incompatible_decryptors' = incompatible_decryptors
    \/ \E k \in Kinds :
        /\ ~InList(k, incompatible_decryptors)
        /\ incompatible_decryptors' = Append(incompatible_decryptors, k)
        /\ ctor_log' = Append(ctor_log, [kind |-> k, ok |-> FALSE])

\* the step is a call of decrypt_encrypted_strings that raised
DecryptFailedStep ==
    /\ Len(batch_log') = Len(batch_log) + 1 \/ Len(batch_log') = Len(batch_log) + 2
    /\ batch_log'[Len(batch_log')].op = "decrypt"
    /\ ~batch_log'[Len(batch_log')].ok

\* C11: the incompatible list changes only by appending a kind whose
\* construction has just failed: it never shrinks and never holds a kind
\* twice; a failed decrypt_encrypted_strings adds nothing to it, it resets the
\* active decryptor to None and the loop moves to the next registry kind.
C11_IncompatibleOnlyGrows ==
    /\ []NoKindTwice
    /\ [][/\ IncompatibleStep
          /\ DecryptFailedStep =>
                /\ incompatible_decryptors' = incompatible_decryptors
                /\ decryptor' = None
                /\ dec_idx' = dec_idx + 1]_vars

\* C11 witness: kind 1 was marked incompatible, kind 2 was constructed and
\* its decryption of the batch failed
C11_Witness ==
    /\ pc = "decrypted"
    /\ incompatible_decryptors = <<1>>
    /\ decryptor = None
    /\ batch_log = <<[op |-> "construct", slot |-> 1, kind |-> 1, ok |-> FALSE],
                     [op |-> "construct", slot |-> 2, kind |-> 2, ok |-> TRUE],
                     [op |-> "decrypt", slot |-> 2, kind |-> 2, ok |-> FALSE]>>

\* the step calls decrypt_encrypted_strings of the active instance and
\* constructs nothing
AsksActiveOnly ==
    /\ Len(batch_log') = Len(batch_log) + 1
    /\ batch_log'[Len(batch_log')].op = "decrypt"
    /\ batch_log'[Len(batch_log')].kind = decryptor
    /\ ctor_log' = ctor_log
    /\ batch_log'[Len(batch_log')].ok => (decryptor' = decryptor /\ pc' = "decrypted")

DecodeEnded == pc \in {"verify_hash_ret", "cctor_ret"}

\* that call reached the check of line 171
ReachedThresholdCheck == item_idx > Len(SUPPORTED_CONFIG_ITEMS)

\* it was rejected with the minimum-threshold error
ThresholdRejected ==
    ~ret.ok /\ ret.exc = ConfigParserException(<<"Minimum threshold of config items not met">>)

\* the names of the fields schema number i parses from method body r
SchemaFields(i, r) == Keys(ItemData(bin, parse_from(SUPPORTED_CONFIG_ITEMS[i], r)))

\* the schema processed last
LastSchema == Len(SUPPORTED_CONFIG_ITEMS)

\* C13: a decode with threshold t is rejected with the minimum-threshold
\* error if and only if the decoded mapping has fewer than t fields and the
\* field set of the item schema processed last has no field named UrlHost;
\* UrlHost in that set makes the check pass whatever the field count, UrlHost
\* in an earlier schema's set only does not.
C13_ThresholdAndUrlHost ==
    DecodeEnded =>
        /\ ThresholdRejected =>  ReachedThresholdCheck
        /\ ReachedThresholdCheck =>
            /\ ThresholdRejected <=>
                    /\ Len(decoded_config) < min_config_len
                    /\ UrlHost \notin SchemaFields(LastSchema, encrypted_config)
            /\ (UrlHost \in SchemaFields(LastSchema, encrypted_config)) => ~ThresholdRejected
            /\ (/\ Len(decoded_config) < min_config_len
                /\ UrlHost \notin SchemaFields(LastSchema, encrypted_config)
                /\ \E i \in 1..(LastSchema - 1) : UrlHost \in SchemaFields(i, encrypted_config))
                => ThresholdRejected

\* C13 witness: the second static constructor, with fewer fields than the
\* threshold and UrlHost among its encrypted strings, was accepted after the
\* first one, with UrlHost among its plain fields, had been rejected
C13_Witness ==
    /\ pc = "cctor_ret"
    /\ cand = 2
    /\ ret.ok
    /\ Len(decoded_config) < min_config_len
    /\ UrlHost \in SchemaFields(LastSchema, encrypted_config)
    /\ UrlHost \in SchemaFields(1, bin.cctors[1])
    /\ \E i \in DOMAIN attempts :
        /\ attempts[i].cand = 1
        /\ attempts[i].exc = <<"Minimum threshold of config items not met">>

\* the parse located a configuration and wrote the report
Reported == pc = "done" /\ found.some /\ report.config.kind = "map"

\* C14: when the decoded mapping is classified obfuscated and
\* preserve_obfuscated_keys is false, the returned configuration has as many
\* entries as the decoded mapping, its i-th key is obfuscated_key_i (from 1,
\* in the decoded mapping's order) and its i-th value the decoded mapping's
\* i-th value; otherwise the decoded mapping is returned unchanged.
C14_PlaceholderKeysInOrder ==
    Reported =>
        IF ~preserve_obfuscated_keys /\ is_likely_obfuscated_config(found.config)
        THEN /\ Len(report.config.map) = Len(found.config)
             /\ \A i \in 1..Len(found.config) :
                    /\ report.config.map[i][1] = ObfuscatedKey(i)
                    /\ report.config.map[i][2] = found.config[i][2]
        ELSE report.config.map = found.config

\* C14 witness: a mapping of several fields with their own names was
\* returned under placeholder keys
C14_Witness ==
    /\ Reported
    /\ ~preserve_obfuscated_keys
    /\ Len(found.config) >= 5
    /\ found.config[1][1] # ObfuscatedKey(1)
    /\ report.config.map[1][1] = ObfuscatedKey(1)
    /\ report.config.map[5] = <<ObfuscatedKey(5), found.config[5][2]>>

\* a decode call with remap_config on has just returned its mapping
RemapReturned == DecodeEnded /\ ret.ok /\ remap_config

\* the names the static item schemas produced (the values of the field-id
\* to name map)
SchemaNames == {config_fields_map[i][2] : i \in DOMAIN config_fields_map}

\* the keys the ascending field-id pass emits
PassKeys == {check_key_n_value(n, Get(decoded_config, n))[1] : n \in SchemaNames}

\* entry i of the decoded mapping is in the returned mapping, name and value
\* unchanged, after the entries of the field-id pass
KeptAfterPass(i) ==
    \E j \in DOMAIN ret.val :
        /\ ret.val[j] = decoded_config[i]
        /\ j > Cardinality(PassKeys)

AcceptedDecode == attempts[Len(attempts)]

\* what the report holds for the key and the salt of an instance of kind k
ReportedKeyOf(k) ==
    IF DecryptorKey(k).t # "None" THEN Hex(DecryptorKey(k)) ELSE NoneString

ReportedSaltOf(k) ==
    IF DecryptorSalt(k).t # "None" THEN Hex(DecryptorSalt(k)) ELSE NoneString

\* key and salt are those of the decryptor that decrypted the batch of the
\* accepted decode
KeyOfAcceptedBatch ==
    (Reported /\ AcceptedDecode.batch = "decrypted") =>
        /\ report.key = ReportedKeyOf(AcceptedDecode.by)
        /\ report.salt = ReportedSaltOf(AcceptedDecode.by)

\* key and salt are "None" when the accepted decode had no encrypted strings
NoKeyWithoutBatch ==
    (Reported /\ AcceptedDecode.batch = "none") =>
        /\ report.key = NoneString
        /\ report.salt = NoneString

\* C16: on a successful parse the report's key and salt are those of a
\* decryptor that decrypted an encrypted-string batch of the accepted decode;
\* when the accepted decode had no encrypted-string fields they are "None",
\* whatever happened in earlier rejected decodes.
C16_KeyFromAcceptedDecode ==
    /\ (Reported => (AcceptedDecode.ok /\ AcceptedDecode.batch # "failed"))
    /\ KeyOfAcceptedBatch
    /\ NoKeyWithoutBatch

\* C16 without the decodes that have no encrypted strings: what holds of the
\* code
C16_KeyFromAcceptedBatch ==
    /\ (Reported => (AcceptedDecode.ok /\ AcceptedDecode.batch # "failed"))
    /\ KeyOfAcceptedBatch

\* the active decryptor's kind is not marked incompatible
ActiveIsCompatible ==
    (decryptor # None) => ~InList(decryptor, incompatible_decryptors)

\* the encrypted-string batch of the method body as handed to the decryptors
\* (the string-table values)
BatchOf(r) == UserStrings(ItemData(bin, parse_from("encrypted", r)))

\* the processing of the encrypted-string batch of the current decode has
\* completed without raising
BatchCompleted == pc = "finish" /\ dec_idx > 0

\* the values stored for the batch are what the last decryptor call of the
\* batch, a successful decrypt_encrypted_strings, returned
StoredIsDecryptOutput ==
    /\ batch_log # <<>>
    /\ LET last == batch_log[Len(batch_log)]
           out == decrypt_encrypted_strings(last.kind, BatchOf(encrypted_config))
       IN  /\ last.op = "decrypt"
           /\ last.ok
           /\ last.kind = decryptor
           /\ DecryptSucceeds(last.kind, encrypted_config)
           /\ item_data = out
           /\ \A j \in DOMAIN out :
                /\ HasKey(decoded_config, out[j][1])
                /\ Get(decoded_config, out[j][1]) = out[j][2]
    /\ \A i \in DOMAIN decoded_config : decoded_config[i][2].t # "user_string"

\* C17: an active decryptor's kind is never in the incompatible list, and
\* when the processing of an encrypted-string batch completes without raising
\* the values stored for the batch are the output of a successful
\* decrypt_encrypted_strings call on that batch, never the string-table
\* values.
C17_StoredBatchIsDecrypted ==
    /\ ActiveIsCompatible
    /\ BatchCompleted => StoredIsDecryptOutput

\* C17 witness: kind 1 is marked incompatible, the instance of kind 2 is
\* active and its output for the batch is stored
C17_Witness ==
    /\ BatchCompleted
    /\ incompatible_decryptors = <<1>>
    /\ decryptor = 2
    /\ \E i \in DOMAIN decoded_config :
        decoded_config[i][2].t = "plaintext" /\ decoded_config[i][2].k = 2

\* strategy A decodes at most once per threshold
OneDecodePerThreshold ==
    LET as == AttemptsOf("A")
    IN  \A i, j \in DOMAIN as :
            (i # j) => as[i].min_config_len # as[j].min_config_len

\* strategy B decodes at most once per threshold and static constructor
OneDecodePerThresholdAndCctor ==
    LET bs == AttemptsOf("B")
    IN  \A i, j \in DOMAIN bs :
            (i # j) => <<bs[i].min_config_len, bs[i].cand>> # <<bs[j].min_config_len, bs[j].cand>>

\* for one batch, the iteration of a registry kind makes at most one
\* constructor call and one decrypt_encrypted_strings call
OneCallPerKindAndBatch ==
    /\ Len(batch_log) <= 2 * Len(SUPPORTED_DECRYPTORS)
    /\ \A i, j \in DOMAIN batch_log :
            (i # j /\ batch_log[i].op = batch_log[j].op) => batch_log[i].slot # batch_log[j].slot

\* the retry loop of strategy A is left by returning or by re-raising
RetryLoopExits ==
    (pc = "done" /\ bin.load_ok) => a_state \in {"returned", "raised"}

====
